---- MODULE Spec2Model ----
(***************************************************************************)
(* A model of plotchecker: the line plot checker (LinePlotChecker, its     *)
(* permutation and its per-line assertions), the shape reconciler          *)
(* PlotChecker._tile_or_trim, the colour conversions _color2rgb and        *)
(* _color2alpha, and the scatter and bar plot checkers.                    *)
(*                                                                         *)
(* Python sequences are modelled as TLA+ sequences; a Python index i is    *)
(* the TLA+ index i + 1 (see Get).  Colour channels are the numerators of  *)
(* fractions over 255, so 1.0 is 255.                                      *)
(***************************************************************************)
EXTENDS Integers, Sequences, FiniteSets, TLC

\* ------------------------------------------------------------------ bounds

\* The largest number of lines drawn on the plot.
MaxLines == 3

\* The longest list of expected values handed to a call.
MaxExpected == 3

\* The largest first dimension of the arrays handed to _tile_or_trim.
MaxDim == 3

\* The longest sequence of numbers handed to the colour conversions.
MaxChannels == 5

VARIABLES
    lines,      \* axis.get_lines(): the drawn lines, in draw order
    legend,     \* axis.get_legend(): whether it exists, and its texts
    perm,       \* LinePlotChecker._perm
    last,       \* the last call on the checker: its arguments and outcome
    found,      \* history: the last successful find_permutation (its key, the
                \* expected values it compared, the permutation it stored)
    tx,         \* _tile_or_trim: the reference array x
    ty,         \* _tile_or_trim: the array y
    tres,       \* _tile_or_trim(x, y)
    tres2,      \* _tile_or_trim(x, _tile_or_trim(x, y))
    tpc,        \* where the _tile_or_trim run stands
    cin,        \* the colour conversions: the value handed to them
    crgb,       \* _color2rgb(cin)
    calpha,     \* _color2alpha(cin)
    cre,        \* _color2rgb(_color2rgb(cin))
    cpc,        \* where the run of the colour conversions stands
    axis,       \* the artists drawn on the axis, in draw order
    checker,    \* the checker constructed over axis, if any
    called,     \* the last call on that checker: its arguments and outcome
    title,      \* axis.get_title(): the title of a plot, as it is now
    base,       \* the PlotChecker over that plot, if any; history: the title
                \* the plot had when the checker was constructed
    tcall,      \* the last call on that PlotChecker: its argument and outcome
    peer        \* a second LinePlotChecker over the same plot: its _perm, the
                \* last call on it, and (history) the permutation its own
                \* last successful find_permutation stored

lineVars == <<lines, legend, perm, last, found>>
tileVars == <<tx, ty, tres, tres2, tpc>>
colorVars == <<cin, crgb, calpha, cre, cpc>>
plotVars == <<axis, checker, called>>
vars == <<lines, legend, perm, last, found, tx, ty, tres, tres2, tpc,
          cin, crgb, calpha, cre, cpc, axis, checker, called,
          title, base, tcall, peer>>
peerVars == <<peer>>
titleVars == <<title, base, tcall>>

\* ------------------------------------------------------- Python sequences

\* s[i] for a Python index i >= 0.
Get(s, i) == s[i + 1]

\* range(n)
Range(n) == 0 .. (n - 1)

\* All sequences over S of length lo..hi.
SeqsOf(S, lo, hi) == UNION {[1 .. k -> S] : k \in lo .. hi}

Min(S) == CHOOSE x \in S : \A y \in S : x <= y

\* ------------------------------------------------------------- colours

\* A Python value given as a colour: a string, a sequence of numbers (Tup), a
\* number, or a sequence of any values (List).
Str(s) == [t |-> "str", s |-> s, v |-> <<>>]
Tup(v) == [t |-> "seq", s |-> "", v |-> v]
Num(n) == [t |-> "num", s |-> "", v |-> <<n>>]
List(v) == [t |-> "list", s |-> "", v |-> v]

\* What a conversion gives its caller: a value, or the exception it raises.
Returns(v) == [exc |-> "none", val |-> v]
Raises(e) == [exc |-> e, val |-> <<>>]

\* matplotlib.colors.ColorConverter.colors: the one-letter colours.
BaseColors == [c \in {"r", "b"} |-> IF c = "r" THEN <<255, 0, 0>> ELSE <<0, 0, 255>>]

\* matplotlib.colors.cnames: the named colours, as hex codes.
cnames == [c \in {"red", "blue"} |-> IF c = "red" THEN "#FF0000" ELSE "#0000FF"]

\* The hex digits of a string "#xxxxxx"; <<>> for any other string.
HexDigits(s) ==
    CASE s \in {"#FF0000", "#ff0000"} -> <<15, 15, 0, 0, 0, 0>>
      [] s \in {"#0000FF", "#0000ff"} -> <<0, 0, 0, 0, 15, 15>>
      [] OTHER -> <<>>

\* matplotlib.colors.hex2color: each pair of hex digits is one channel; <<>>
\* stands for its ValueError.
hex2color(s) ==
    LET d == HexDigits(s)
    IN  IF Len(d) = 6
        THEN <<16 * d[1] + d[2], 16 * d[3] + d[4], 16 * d[5] + d[6]>>
        ELSE <<>>

\* base.py's module-level table: the one-letter colours, then every cnames
\* entry converted with hex2color.
named_colors ==
    [c \in DOMAIN BaseColors \cup DOMAIN cnames |->
        IF c \in DOMAIN cnames THEN hex2color(cnames[c]) ELSE BaseColors[c]]

\* The strings float() parses, with their values.
NumericStrings == [s \in {"0", "1.0"} |-> IF s = "0" THEN 0 ELSE 255]

\* float(x): a number is kept, a string is parsed (ValueError when it is not
\* a number), a sequence is a TypeError.
float(x) ==
    CASE x.t = "num" -> Returns(x.v[1])
      [] x.t = "str" -> IF x.s \in DOMAIN NumericStrings
                        THEN Returns(NumericStrings[x.s])
                        ELSE Raises("ValueError")
      [] OTHER -> Raises("TypeError")

\* hasattr(color, '__iter__') for a value that is not a string.
IsIterable(color) == color.t \in {"seq", "list", "ndarray"}

\* The elements of a sequence, as Python values.
Elements(color) ==
    IF color.t \in {"seq", "ndarray"} THEN [i \in 1 .. Len(color.v) |-> Num(color.v[i])] ELSE color.v

\* tuple(float(x) for x in xs): the first exception raised ends it.
Floats(xs) ==
    LET f == [i \in 1 .. Len(xs) |-> float(xs[i])]
        bad == {i \in 1 .. Len(xs) : f[i].exc # "none"}
    IN  IF bad = {}
        THEN Returns([i \in 1 .. Len(xs) |-> f[i].val])
        ELSE Raises(f[Min(bad)].exc)

\* _color2rgb that forgets to cut an RGBA colour to its first three channels.
color2rgb_uncut(color) ==
    IF color.t = "str"
    THEN IF color.s \in DOMAIN named_colors
         THEN Returns(named_colors[color.s])
         ELSE IF hex2color(color.s) = <<>>
              THEN Raises("ValueError")
              ELSE Returns(hex2color(color.s))
    ELSE IF IsIterable(color) /\ Len(color.v) \in {3, 4} THEN Floats(Elements(color))
    ELSE Raises("ValueError")

\* PlotChecker._color2rgb(color): the RGB triple, or the exception.
color2rgb_call(color) ==
    IF color.t = "str"
    THEN IF color.s \in DOMAIN named_colors
         THEN Returns(named_colors[color.s])
         ELSE IF hex2color(color.s) = <<>>
              THEN Raises("ValueError")
              ELSE Returns(hex2color(color.s))
    ELSE IF IsIterable(color) /\ Len(color.v) = 3 THEN Floats(Elements(color))
    ELSE IF IsIterable(color) /\ Len(color.v) = 4 THEN Floats(SubSeq(Elements(color), 1, 3))
    ELSE Raises("ValueError")

\* PlotChecker._color2rgb where it returns; <<>> stands for an exception.
color2rgb(color) == color2rgb_call(color).val

\* _color2alpha that takes every colour for opaque.
color2alpha_opaque(color) ==
    IF color.t = "str" THEN Returns(255)
    ELSE IF IsIterable(color) /\ Len(color.v) \in {3, 4} THEN Returns(255)
    ELSE Raises("ValueError")

\* PlotChecker._color2alpha(color): the alpha value, or the exception.
color2alpha(color) ==
    IF color.t = "str" THEN Returns(255)
    ELSE IF IsIterable(color) /\ Len(color.v) = 3 THEN Returns(255)
    ELSE IF IsIterable(color) /\ Len(color.v) = 4 THEN float(Elements(color)[4])
    ELSE Raises("ValueError")

\* ------------------------------------------------------- the drawn plot

\* The attributes of LinePlotChecker the calls below use.  y_data, alphas,
\* linewidths, markers, markersizes and markeredgewidths are lists with one
\* entry per line, asserted through _assert_equal as x_data is;
\* markerfacecolors and markeredgecolors are parsed and asserted as colors is.
Attrs == {"x_data", "colors", "labels"}

\* What a line may be drawn with: its data (one value stands for the whole
\* array of a line) and its colour (a name, or an RGBA tuple).
XVals == {1, 2, 3}
LineColors == {Str("r"), Tup(<<0, 0, 255, 128>>)}
Labels == {"A", "B"}

\* One Line2D: its data and get_color().
LineKinds == [x : XVals, color : LineColors]

\* LinePlotChecker.x_data, .colors, .labels; a legend that does not exist
\* gives no labels.
x_data == [i \in 1 .. Len(lines) |-> lines[i].x]
colors == [i \in 1 .. Len(lines) |-> color2rgb(lines[i].color)]
labels == IF legend.exists THEN legend.texts ELSE <<>>

\* getattr(self, attr_name)
Actual(attr) ==
    CASE attr = "x_data" -> x_data
      [] attr = "colors" -> colors
      [] attr = "labels" -> labels

\* -------------------------------------------------------- the outcomes

\* What a call gives its caller: no exception, or the exception raised.  For
\* an AssertionError, msg is the message's kind and attr, line, alen, elen are
\* what the message names.  ncmp is the number of lines whose comparison was
\* reached and permread whether the permutation was indexed; shown are the
\* two values a value failure's message is formatted from (expected first).
Passed ==
    [exc |-> "none", msg |-> "none", attr |-> "", line |-> -1,
     alen |-> -1, elen |-> -1, ncmp |-> 0, permread |-> FALSE,
     shown |-> <<>>]

\* "Invalid length for attribute '{}': {} (expected {})"
LengthError(attr, alen, elen) ==
    [exc |-> "AssertionError", msg |-> "length", attr |-> attr, line |-> -1,
     alen |-> alen, elen |-> elen, ncmp |-> 0, permread |-> FALSE,
     shown |-> <<>>]

\* The failure to match raised as a ValueError.
NoMatchValueError(attr) ==
    [exc |-> "ValueError", msg |-> "nomatch", attr |-> attr, line |-> -1,
     alen |-> -1, elen |-> -1, ncmp |-> 0, permread |-> FALSE,
     shown |-> <<>>]

\* "Could not match plotted values {} to expected values {} for attr '{}'"
NoMatch(attr) ==
    [exc |-> "AssertionError", msg |-> "nomatch", attr |-> attr, line |-> -1,
     alen |-> -1, elen |-> -1, ncmp |-> 0, permread |-> FALSE,
     shown |-> <<>>]

\* ----------------------------------------------------- _assert_equal

\* The loop's step with the permutation applied to the wrong side:
\* actual[perm[i]] is compared with expected[i].
StepAtSwapped(expected, actual, p, i) ==
    IF i >= Len(p) \/ Get(p, i) >= Len(actual) THEN "IndexError"
    ELSE IF Get(actual, Get(p, i)) # Get(expected, i) THEN "AssertionError"
    ELSE "none"

\* What happens at line i of the loop of _assert_equal: perm[i] or
\* expected[perm[i]] is out of range, func raises, or nothing.
StepAt(expected, actual, p, i) ==
    IF i >= Len(p) \/ Get(p, i) >= Len(expected) THEN "IndexError"
    ELSE IF Get(actual, i) # Get(expected, Get(p, i)) THEN "AssertionError"
    ELSE "none"

\* The values 'expected' and 'actual' reported for line i, but the expected
\* one taken at i, without the permutation.
ReportedUnpermuted(expected, actual, p, i) ==
    <<Get(expected, i), Get(actual, i)>>

\* The values the message of line i is formatted from:
\* expected[perm[i]], actual[i].
Reported(expected, actual, p, i) ==
    <<Get(expected, Get(p, i)), Get(actual, i)>>

\* The loop of _assert_equal over range(len(expected)): it stops at the first
\* line where something is raised.
CheckLines(attr, expected, actual, p) ==
    LET bad == {i \in Range(Len(expected)) : StepAt(expected, actual, p, i) # "none"}
    IN  IF bad = {}
        THEN [Passed EXCEPT !.ncmp = Len(expected), !.permread = Len(expected) > 0]
        ELSE LET i == Min(bad)
                 what == StepAt(expected, actual, p, i)
             IN  [exc |-> what,
                  msg |-> IF what = "IndexError" THEN "index" ELSE "value",
                  attr |-> attr, line |-> i, alen |-> -1, elen |-> -1,
                  ncmp |-> IF what = "IndexError" THEN i ELSE i + 1,
                  permread |-> TRUE,
                  shown |-> IF what = "IndexError" THEN <<>>
                            ELSE Reported(expected, actual, p, i)]

\* _assert_equal with a length check that only refuses a longer expected
\* list (> in place of !=).
assert_equal_longer_only(attr, expected, actual, p) ==
    IF Len(expected) > Len(actual)
    THEN LengthError(attr, Len(actual), Len(expected))
    ELSE CheckLines(attr, expected, actual, p)

\* LinePlotChecker._assert_equal(attr, expected, actual, perm=p) with
\* func = numpy.testing.assert_equal: the length check, then the loop.
assert_equal(attr, expected, actual, p) ==
    IF Len(expected) # Len(actual)
    THEN LengthError(attr, Len(actual), Len(expected))
    ELSE CheckLines(attr, expected, actual, p)

\* What assert_<attr>_equal does to its argument before _assert_equal.
ParseExpected(attr, vals) ==
    IF attr = "colors"
    THEN [i \in 1 .. Len(vals) |-> color2rgb(vals[i])]
    ELSE vals

\* The indices counted from one: list(range(1, n + 1)).
IdentityFromOne(n) == [i \in 1 .. n |-> i]

\* list(range(len(self._lines)))
Identity(n) == [i \in 1 .. n |-> i - 1]

\* An assertion that ignores self._perm and compares in draw order.
AssertPermIdentity == Identity(Len(lines))

\* The permutation an assertion hands to _assert_equal: perm=None, so self._perm.
AssertPerm == perm

\* ------------------------------------------------- find_permutation

\* What find_permutation does to attr_vals: colours are parsed, nothing else is.
ParseKey(attr, vals) ==
    IF attr = "colors"
    THEN [i \in 1 .. Len(vals) |-> color2rgb(vals[i])]
    ELSE vals

\* itertools.permutations(range(n)), as a set; LexLess is its order.
Permutations0(n) ==
    {p \in [1 .. n -> Range(n)] : \A i, j \in 1 .. n : i # j => p[i] # p[j]}

\* p comes before q in itertools.permutations' (lexicographic) order.
LexLess(p, q) ==
    \E k \in 1 .. Len(p) :
        /\ p[k] < q[k]
        /\ \A j \in 1 .. (k - 1) : p[j] = q[j]

\* The permutations the loop of find_permutation would accept.
Matching(attr, expected, actual) ==
    {p \in Permutations0(Len(expected)) :
        assert_equal(attr, expected, actual, p).exc = "none"}

\* The inverse of a permutation of range(n).
Inverse(p) == [i \in 1 .. Len(p) |-> (CHOOSE j \in 1 .. Len(p) : p[j] = i - 1) - 1]

\* The first matching permutation stored in the wrong direction: from
\* expected index to actual index.
FirstMatchingInverse(attr, expected, actual) ==
    LET m == Matching(attr, expected, actual)
    IN  Inverse(CHOOSE p \in m : \A q \in m : q = p \/ LexLess(p, q))

\* The loop running to its end, so that the last matching permutation is the
\* one left in self._perm.
LastMatching(attr, expected, actual) ==
    LET m == Matching(attr, expected, actual)
    IN  CHOOSE p \in m : \A q \in m : q = p \/ LexLess(q, p)

\* The one the loop reaches first.
FirstMatching(attr, expected, actual) ==
    LET m == Matching(attr, expected, actual)
    IN  CHOOSE p \in m : \A q \in m : q = p \/ LexLess(p, q)

\* The outcome of find_permutation(attr_name, attr_vals).
find_outcome(attr, vals) ==
    LET expected == ParseKey(attr, vals)
        actual == Actual(attr)
    IN  IF Len(expected) # Len(actual)
        THEN LengthError(attr, Len(actual), Len(expected))
        ELSE IF Matching(attr, expected, actual) = {}
        THEN NoMatch(attr)
        ELSE Passed

\* ------------------------------------------------------ the inputs

\* Colours as a test author may write them: a name, a hex code, an RGB tuple.
ColorReps == {Str("r"), Str("#ff0000"), Tup(<<0, 0, 255>>)}

\* The values a test author may list for an attribute.
ExpectedVals(attr) ==
    CASE attr = "x_data" -> XVals
      [] attr = "colors" -> ColorReps
      [] attr = "labels" -> Labels

ExpectedLists(attr) == SeqsOf(ExpectedVals(attr), 0, MaxExpected)

\* ------------------------------------------------ the line checker

\* No call is under way: the checker waits for the test's next call.
NoCall == [op |-> "idle", attr |-> "", expected |-> <<>>, out |-> Passed]

\* x_data and labels are only ever compared for equality, so one plot stands
\* for all that differ from it by renaming data or labels: the first value
\* drawn is the least, and each later one is at most one above those before.
FirstUse(s, vals) ==
    \A i \in 1 .. Len(s) :
        Cardinality({v \in vals : v < s[i]}) <= Cardinality({s[j] : j \in 1 .. (i - 1)})

\* The legend texts, when there is a legend: at most one per line.
LegendTexts(n) ==
    {t \in SeqsOf(Labels, 1, n) : FirstUse([i \in 1 .. Len(t) |-> IF t[i] = "A" THEN 1 ELSE 2], {1, 2})}

\* LinePlotChecker(axis) over a plot with at least one line (with none, the
\* constructor raises InvalidPlotError and there is no checker).
InitLine ==
    /\ lines \in SeqsOf(LineKinds, 1, MaxLines)
    /\ FirstUse(x_data, XVals)
    /\ legend \in {[exists |-> FALSE, texts |-> <<>>]}
            \cup {[exists |-> TRUE, texts |-> t] : t \in LegendTexts(Len(lines))}
    /\ perm = Identity(Len(lines))
    /\ last = NoCall
    /\ found = [key |-> "", expected |-> <<>>, p |-> Identity(Len(lines))]

\* find_permutation starting over from the identity at its entry, so that a
\* call that fails has lost the permutation stored before it.
FindPermutationResets(attr, vals) ==
    LET out == find_outcome(attr, vals)
    IN  /\ last.op = "idle"
        /\ last' = [op |-> "find", attr |-> attr, expected |-> vals, out |-> out]
        /\ IF out.exc = "none"
           THEN LET p == FirstMatching(attr, ParseKey(attr, vals), Actual(attr))
                IN  /\ perm' = p
                    /\ found' = [key |-> attr, expected |-> ParseKey(attr, vals), p |-> p]
           ELSE /\ perm' = Identity(Len(lines))
                /\ UNCHANGED found
        /\ UNCHANGED <<lines, legend>>

\* pc.find_permutation(attr, vals): self._perm is set when a permutation
\* matches, and only then.
FindPermutation(attr, vals) ==
    LET out == find_outcome(attr, vals)
    IN  /\ last.op = "idle"
        /\ last' = [op |-> "find", attr |-> attr, expected |-> vals, out |-> out]
        /\ IF out.exc = "none"
           THEN LET p == FirstMatching(attr, ParseKey(attr, vals), Actual(attr))
                IN  /\ perm' = p
                    /\ found' = [key |-> attr, expected |-> ParseKey(attr, vals), p |-> p]
           ELSE UNCHANGED <<perm, found>>
        /\ UNCHANGED <<lines, legend>>

\* pc.assert_<attr>_equal(vals)
AssertEqual(attr, vals) ==
    /\ last.op = "idle"
    /\ last' = [op |-> "assert", attr |-> attr, expected |-> vals,
                out |-> assert_equal(attr, ParseExpected(attr, vals), Actual(attr), AssertPerm)]
    /\ UNCHANGED <<lines, legend, perm, found>>

\* The call has returned or raised; the test goes on to its next call.
Return ==
    /\ last.op # "idle"
    /\ last' = NoCall
    /\ UNCHANGED <<lines, legend, perm, found>>

\* ---------------------------------------------------- _tile_or_trim

\* A numpy array: its shape and its elements in row-major order.
Array(shape, data) == [err |-> "none", shape |-> shape, data |-> data]

\* An exception in place of an array.
Raised(err) == [err |-> err, shape |-> <<>>, data |-> <<>>]

\* The number of elements in one entry of the first dimension.
RowSize(a) == IF Len(a.shape) = 2 THEN a.shape[2] ELSE 1

\* a[i], an entry of the first dimension, as the sequence of its elements.
Row(a, i) == SubSeq(a.data, i * RowSize(a) + 1, (i + 1) * RowSize(a))

\* numpy.tile(a, reps) for a of one or two dimensions and reps no longer than
\* a.ndim: reps is padded with 1s at the front, then each axis is repeated.
np_tile(a, reps) ==
    LET full == [k \in 1 .. Len(a.shape) |->
                    IF k > Len(a.shape) - Len(reps)
                    THEN reps[k - (Len(a.shape) - Len(reps))]
                    ELSE 1]
        n == a.shape[1]
        w == RowSize(a)
        wrep == IF Len(a.shape) = 2 THEN full[2] ELSE 1
        rows == n * full[1]
        cols == w * wrep
        shape == IF Len(a.shape) = 2 THEN <<rows, cols>> ELSE <<rows>>
    IN  Array(shape,
              [k \in 1 .. rows * cols |->
                  LET i == (k - 1) \div cols
                      j == (k - 1) % cols
                  IN  a.data[(i % n) * w + (j % w) + 1]])

\* The repetitions without the 1s of the other axes: numpy.tile then
\* repeats the last axis.
TileRepsFlat(y, numrep) == <<numrep>>

\* (numrep,) + (1,) * (y.ndim - 1)
TileReps(y, numrep) == <<numrep>> \o [k \in 1 .. (Len(y.shape) - 1) |-> 1]

\* y[-xn:], the last xn entries (all of y when xn is 0).
TrimTail(y, xn) ==
    LET k == IF xn = 0 THEN y.shape[1] ELSE xn
    IN  Array([y.shape EXCEPT ![1] = k],
              SubSeq(y.data, (y.shape[1] - k) * RowSize(y) + 1, Len(y.data)))

\* y[:xn]
Trim(y, xn) ==
    Array([y.shape EXCEPT ![1] = xn], SubSeq(y.data, 1, xn * RowSize(y)))

\* xn // yn: the division rounded down.
NumRepFloor(xn, yn) == xn \div yn

\* int(numpy.ceil(xn / yn)) for yn > 0
NumRep(xn, yn) == (xn + yn - 1) \div yn

\* PlotChecker._tile_or_trim(x, y); xn / yn raises ZeroDivisionError when
\* y is empty and x is not.
tile_or_trim(x, y) ==
    LET xn == x.shape[1]
        yn == y.shape[1]
    IN  IF xn > yn /\ yn = 0
        THEN Raised("ZeroDivisionError")
        ELSE LET y1 == IF xn > yn THEN np_tile(y, TileReps(y, NumRep(xn, yn))) ELSE y
             IN  IF xn < y1.shape[1] THEN Trim(y1, xn) ELSE y1

\* The arrays handed to _tile_or_trim: of one dimension, or of two with rows
\* of two elements.
Shapes == {<<n>> : n \in 0 .. MaxDim} \cup {<<n, 2>> : n \in 0 .. MaxDim}

Size(shape) == IF Len(shape) = 2 THEN shape[1] * shape[2] ELSE shape[1]

Arrays == UNION {{Array(sh, d) : d \in [1 .. Size(sh) -> {0, 1}]} : sh \in Shapes}

\* Only x.shape[0] is read: x is drawn with all its elements 0.
RefArrays == {Array(sh, [k \in 1 .. Size(sh) |-> 0]) : sh \in Shapes}

NoArray == Raised("unset")

\* y1 = _tile_or_trim(x, y0)
TileCall ==
    /\ tpc = "start"
    /\ tres' = tile_or_trim(tx, ty)
    /\ tpc' = "called"
    /\ UNCHANGED <<tx, ty, tres2>>

\* y2 = _tile_or_trim(x, y1), when the first call returned
TileAgain ==
    /\ tpc = "called"
    /\ tres.err = "none"
    /\ tres2' = tile_or_trim(tx, tres)
    /\ tpc' = "again"
    /\ UNCHANGED <<tx, ty, tres>>

\* ------------------------------------------- the colour conversions

\* The values handed to _color2rgb and _color2alpha: strings (names, hex
\* codes, neither), numbers, sequences of numbers of every length, and short
\* sequences that hold something else than numbers.
ColorStrings ==
    {"r", "b", "red", "blue", "#ff0000", "#FF0000", "#0000ff", "#0000FF", "foo", ""}

Channels == {0, 128, 255}

ListElements == {Num(0), Num(255), Str("1.0"), Str("0"), Str("r"), Tup(<<0, 0, 255>>)}

ColorInputs ==
    {Str(c) : c \in ColorStrings}
        \cup {Num(n) : n \in {0, 255}}
        \cup {Tup(v) : v \in SeqsOf(Channels, 0, MaxChannels)}
        \cup {List(v) : v \in {w \in SeqsOf(ListElements, 1, 4) :
                                  \E i \in 1 .. Len(w) : w[i].t # "num"}}

NoResult == Raises("unset")

\* rgb = PlotChecker._color2rgb(color)
Color2Rgb ==
    /\ cpc = "start"
    /\ crgb' = color2rgb_call(cin)
    /\ cpc' = "rgb"
    /\ UNCHANGED <<cin, calpha, cre>>

\* alpha = PlotChecker._color2alpha(color)
Color2Alpha ==
    /\ cpc = "rgb"
    /\ calpha' = color2alpha(cin)
    /\ cpc' = "alpha"
    /\ UNCHANGED <<cin, crgb, cre>>

\* PlotChecker._color2rgb(rgb), when the first conversion returned
Color2RgbAgain ==
    /\ cpc = "alpha"
    /\ crgb.exc = "none"
    /\ cre' = color2rgb_call(Tup(crgb.val))
    /\ cpc' = "again"
    /\ UNCHANGED <<cin, crgb, calpha>>

\* ------------------------------ the artists of a plot and the checkers

\* The largest number of artists drawn on the axis.
MaxDraws == 2

\* get_alpha() of an artist whose alpha was never set: None.
NoAlpha == -1

\* Python's None, where a marker is expected.
None == [t |-> "none", s |-> "", v |-> <<>>]

\* A Line2D that plot() adds to axis.get_lines(): its n points, line style,
\* marker, colour (the marker's face colour too) and alpha.
Line2D(n, ls, marker, color, alpha) ==
    [kind |-> "line", xs |-> [j \in 1 .. n |-> 0], ys |-> [j \in 1 .. n |-> 0],
     linestyle |-> ls, marker |-> marker, color |-> color, alpha |-> alpha]

\* A PathCollection that scatter() adds to axis.collections: its n points,
\* face colours (RGBA rows: none, fewer than, as many as or more than its
\* points) and alpha.
PathCollection(n, facecolors, alpha) ==
    [kind |-> "collection", xs |-> [j \in 1 .. n |-> 0], ys |-> [j \in 1 .. n |-> 0],
     facecolors |-> facecolors, alpha |-> alpha]

\* A Rectangle that bar() adds to axis.patches: its left edge, width, height,
\* face colour (RGBA) and alpha.
Rectangle(x, width, facecolor, alpha) ==
    [kind |-> "patch", x |-> x, width |-> width, height |-> 0,
     facecolor |-> facecolor, alpha |-> alpha]

LineStyles == {"None", "-"}

Markers == {Str("o"), Str(""), Str("None"), None}

ArtistColors == {Str("b"), Tup(<<255, 0, 0, 128>>)}

FaceColors == {Tup(<<0, 0, 255, 255>>), Tup(<<255, 0, 0, 128>>)}

ArtistAlphas == {NoAlpha, 64}

PointCounts == {1, 2}

LeftEdges == {0, 1, 2}

Widths == {2, 6}

Artists ==
    {Line2D(n, ls, m, c, a) :
        n \in PointCounts, ls \in LineStyles, m \in Markers, c \in ArtistColors,
        a \in ArtistAlphas}
    \cup UNION {{PathCollection(n, fc, a) :
                    fc \in SeqsOf(FaceColors, 0, n + 1), a \in ArtistAlphas} :
                n \in PointCounts}
    \cup {Rectangle(x, w, c, a) :
            x \in LeftEdges, w \in Widths, c \in FaceColors, a \in ArtistAlphas}

\* The artists as drawn: the k-th call's points lie at x = 10k, 10k + 1, ..
\* and y = x + 5, and the k-th call's bar has height k, so that every point
\* and every bar is told from the others by its data.
Drawn(s) ==
    [k \in 1 .. Len(s) |->
        IF s[k].kind = "patch"
        THEN [s[k] EXCEPT !.height = k]
        ELSE [s[k] EXCEPT !.xs = [j \in 1 .. Len(@) |-> 10 * k + j - 1],
                          !.ys = [j \in 1 .. Len(@) |-> 10 * k + j + 4]]]

Axes == {Drawn(s) : s \in SeqsOf(Artists, 0, MaxDraws)}

IsLine2D(a) == a.kind = "line"
IsCollection(a) == a.kind = "collection"
IsPatch(a) == a.kind = "patch"

\* axis.get_lines(), axis.collections, axis.patches: in draw order
get_lines(ax) == SelectSeq(ax, IsLine2D)
collections(ax) == SelectSeq(ax, IsCollection)
patches(ax) == SelectSeq(ax, IsPatch)

\* A checker: its kind, the exception its constructor raised ("none" when it
\* returned), and the artists it keeps.
Checker(kind, ls, cs, ps) ==
    [kind |-> kind, exc |-> "none", lines |-> ls, collections |-> cs, patches |-> ps]

\* The constructor raised: there is no instance.
NoInstance(kind, exc) ==
    [kind |-> kind, exc |-> exc, lines |-> <<>>, collections |-> <<>>, patches |-> <<>>]

NoChecker == NoInstance("none", "none")

\* LinePlotChecker.__init__ without its check for lines.
LinePlotChecker_unchecked(ax) == Checker("line", get_lines(ax), <<>>, <<>>)

\* LinePlotChecker.__init__
LinePlotChecker(ax) ==
    IF Len(get_lines(ax)) = 0
    THEN NoInstance("line", "InvalidPlotError")
    ELSE Checker("line", get_lines(ax), <<>>, <<>>)

\* _parse_marker that knows only None as a null marker.
parse_marker_none(marker) == IF marker = None THEN Str("") ELSE marker

\* PlotChecker._parse_marker
parse_marker(marker) == IF marker = None \/ marker = Str("None") THEN Str("") ELSE marker

\* The loop of ScatterPlotChecker.__init__ raises for this line.
NotPoints(x) ==
    \/ Len(x.xs) > 1 /\ x.linestyle # "None"
    \/ parse_marker(x.marker) = Str("")

\* ScatterPlotChecker.__init__
ScatterPlotChecker(ax) ==
    IF Len(get_lines(ax)) = 0 /\ Len(collections(ax)) = 0
    THEN NoInstance("scatter", "InvalidPlotError")
    ELSE IF \E i \in 1 .. Len(get_lines(ax)) : NotPoints(get_lines(ax)[i])
         THEN NoInstance("scatter", "InvalidPlotError")
         ELSE Checker("scatter", get_lines(ax), collections(ax), <<>>)

\* The indices as they are: nothing is sorted.
argsort_unsorted(xs) == {[i \in 1 .. Len(xs) |-> i]}

\* numpy.argsort(xs): every order of the indices that sorts xs (the default
\* sort is not stable, equal values may come in either order).
argsort(xs) ==
    {p \in [1 .. Len(xs) -> 1 .. Len(xs)] :
        /\ \A i, j \in 1 .. Len(xs) : i # j => p[i] # p[j]
        /\ \A i, j \in 1 .. Len(xs) : i < j => xs[p[i]] <= xs[p[j]]}

\* BarPlotChecker.__init__ with the patches sorted by order p
BarPlotChecker(ax, p) ==
    IF Len(patches(ax)) = 0
    THEN NoInstance("bar", "InvalidPlotError")
    ELSE Checker("bar", <<>>, <<>>, [i \in 1 .. Len(p) |-> patches(ax)[p[i]]])

\* The sequences of ss, joined.
RECURSIVE Concat(_)
Concat(ss) == IF ss = <<>> THEN <<>> ELSE Head(ss) \o Concat(Tail(ss))

\* numpy.array(vals) for a list of numbers
np_array(vals) == Array(<<Len(vals)>>, vals)

\* numpy.array(rows) for a list of rows of one length; of no row, it has
\* one dimension and no element.
np_array_rows(rows) ==
    IF rows = <<>>
    THEN Array(<<0>>, <<>>)
    ELSE Array(<<Len(rows), Len(rows[1])>>, Concat(rows))

\* numpy.concatenate(arrs, axis=0); an exception raised while the list was
\* built is raised in its place.
np_concatenate(arrs) ==
    LET bad == {i \in 1 .. Len(arrs) : arrs[i].err # "none"}
        data == Concat([i \in 1 .. Len(arrs) |-> arrs[i].data])
    IN  IF bad # {}
        THEN arrs[Min(bad)]
        ELSE Array([arrs[1].shape EXCEPT ![1] = Len(data) \div RowSize(arrs[1])], data)

\* x.get_xydata() of a line, x.get_offsets() of a collection: one row (x, y)
\* per point.
get_xydata(x) ==
    Array(<<Len(x.xs), 2>>, Concat([j \in 1 .. Len(x.xs) |-> <<x.xs[j], x.ys[j]>>]))

\* a[:, c]
Column(a, c) ==
    Array(<<a.shape[1]>>, [i \in 1 .. a.shape[1] |-> a.data[(i - 1) * a.shape[2] + c + 1]])

\* The column of every collection's points, then the column of every line's.
scatter_data_collections_first(pc, c) ==
    np_concatenate(
        [i \in 1 .. Len(pc.collections) |-> Column(get_xydata(pc.collections[i]), c)]
        \o [i \in 1 .. Len(pc.lines) |-> Column(get_xydata(pc.lines[i]), c)])

\* ScatterPlotChecker.x_data (c = 0) and y_data (c = 1): the column of every
\* line's points, then the column of every collection's offsets.
scatter_data(pc, c) ==
    np_concatenate(
        [i \in 1 .. Len(pc.lines) |-> Column(get_xydata(pc.lines[i]), c)]
        \o [i \in 1 .. Len(pc.collections) |-> Column(get_xydata(pc.collections[i]), c)])

\* ScatterPlotChecker.colors
scatter_colors(pc) ==
    np_concatenate(
        [i \in 1 .. Len(pc.lines) |->
            LET x == pc.lines[i]
            IN  tile_or_trim(get_xydata(x), np_array_rows(<<color2rgb(x.color)>>))]
        \o [i \in 1 .. Len(pc.collections) |->
            LET x == pc.collections[i]
            IN  tile_or_trim(get_xydata(x),
                             np_array_rows([k \in 1 .. Len(x.facecolors) |->
                                               color2rgb(x.facecolors[k])]))])

\* ScatterPlotChecker.alphas that reads the colour's alpha even when the
\* artist's alpha is set.
scatter_alphas_of_colour(pc) ==
    np_concatenate(
        [i \in 1 .. Len(pc.lines) |->
            LET x == pc.lines[i]
            IN  tile_or_trim(get_xydata(x), np_array(<<color2alpha(x.color).val>>))]
        \o [i \in 1 .. Len(pc.collections) |->
            LET x == pc.collections[i]
            IN  tile_or_trim(get_xydata(x),
                             np_array([k \in 1 .. Len(x.facecolors) |->
                                          color2alpha(x.facecolors[k]).val]))])

\* ScatterPlotChecker.alphas
scatter_alphas(pc) ==
    np_concatenate(
        [i \in 1 .. Len(pc.lines) |->
            LET x == pc.lines[i]
                alpha == IF x.alpha = NoAlpha
                         THEN np_array(<<color2alpha(x.color).val>>)
                         ELSE np_array(<<x.alpha>>)
            IN  tile_or_trim(get_xydata(x), alpha)]
        \o [i \in 1 .. Len(pc.collections) |->
            LET x == pc.collections[i]
                alpha == IF x.alpha = NoAlpha
                         THEN np_array([k \in 1 .. Len(x.facecolors) |->
                                           color2alpha(x.facecolors[k]).val])
                         ELSE np_array(<<x.alpha>>)
            IN  tile_or_trim(get_xydata(x), alpha)])

\* A markers property that guesses: the marker of each line's points, 'o'
\* for the points of a collection.
scatter_markers_guess(pc) ==
    np_concatenate(
        [i \in 1 .. Len(pc.lines) |->
            np_array([j \in 1 .. Len(pc.lines[i].xs) |-> pc.lines[i].marker.s])]
        \o [i \in 1 .. Len(pc.collections) |->
            np_array([j \in 1 .. Len(pc.collections[i].xs) |-> "o"])])

\* ScatterPlotChecker.markers: not implemented
scatter_markers(pc) == Raised("NotImplementedError")

\* LinePlotChecker.alphas: a list with one entry per line
line_alphas(pc) ==
    np_array([i \in 1 .. Len(pc.lines) |->
                 IF pc.lines[i].alpha = NoAlpha
                 THEN color2alpha(pc.lines[i].color).val
                 ELSE pc.lines[i].alpha])

\* BarPlotChecker.centers; the widths drawn are even, so that width / 2 is
\* a whole number.
bar_centers(pc) ==
    np_array([i \in 1 .. Len(pc.patches) |-> pc.patches[i].x + pc.patches[i].width \div 2])

\* BarPlotChecker.heights
bar_heights(pc) == np_array([i \in 1 .. Len(pc.patches) |-> pc.patches[i].height])

\* BarPlotChecker.widths
bar_widths(pc) == np_array([i \in 1 .. Len(pc.patches) |-> pc.patches[i].width])

\* BarPlotChecker.colors
bar_colors(pc) ==
    np_array_rows([i \in 1 .. Len(pc.patches) |-> color2rgb(pc.patches[i].facecolor)])

\* BarPlotChecker.alphas
bar_alphas(pc) ==
    np_array([i \in 1 .. Len(pc.patches) |->
                 IF pc.patches[i].alpha = NoAlpha
                 THEN color2alpha(pc.patches[i].facecolor).val
                 ELSE pc.patches[i].alpha])

\* The properties of a checker, read one after the other; a property the
\* checker does not have is NoArray.
Properties(pc) ==
    [x_data |-> IF pc.kind = "scatter" THEN scatter_data(pc, 0) ELSE NoArray,
     y_data |-> IF pc.kind = "scatter" THEN scatter_data(pc, 1) ELSE NoArray,
     centers |-> IF pc.kind = "bar" THEN bar_centers(pc) ELSE NoArray,
     heights |-> IF pc.kind = "bar" THEN bar_heights(pc) ELSE NoArray,
     widths |-> IF pc.kind = "bar" THEN bar_widths(pc) ELSE NoArray,
     colors |-> CASE pc.kind = "scatter" -> scatter_colors(pc)
                  [] pc.kind = "bar" -> bar_colors(pc)
                  [] OTHER -> NoArray,
     alphas |-> CASE pc.kind = "scatter" -> scatter_alphas(pc)
                  [] pc.kind = "bar" -> bar_alphas(pc)
                  [] OTHER -> line_alphas(pc),
     markers |-> IF pc.kind = "scatter" THEN scatter_markers(pc) ELSE NoArray]

NoProperties ==
    [x_data |-> NoArray, y_data |-> NoArray, centers |-> NoArray, heights |-> NoArray,
     widths |-> NoArray, colors |-> NoArray, alphas |-> NoArray, markers |-> NoArray]

\* A numpy array of numbers handed to a call as the expected value.
NdArray(v) == [t |-> "ndarray", s |-> "", v |-> v]

\* The characters of the strings handed to a call that have more than one
\* (a one-letter string is its own only character).
Characters == [s \in {"rb", "foo"} |-> IF s = "rb" THEN <<"r", "b">> ELSE <<"f", "o", "o">>]

\* iter(val): the items of a Python value, or the TypeError of a number.
Items(val) ==
    CASE val.t = "num" -> Raises("TypeError")
      [] val.t = "str" -> Returns(IF val.s \in DOMAIN Characters
                                  THEN [i \in 1 .. Len(Characters[val.s]) |->
                                           Str(Characters[val.s][i])]
                                  ELSE <<Str(val.s)>>)
      [] OTHER -> Returns(Elements(val))

\* What _parse_expected_attr hands back: an exception, or the values as an
\* array, with whether they are a numpy array (a list or tuple is not).
Parsed(isarray, arr) == [exc |-> arr.err, ndarray |-> isarray, arr |-> arr]
ParseRaises(e) == [exc |-> e, ndarray |-> FALSE, arr |-> Raised(e)]

\* numpy.array([self._color2rgb(x) for x in attr_val])
ColorRows(attr_val) ==
    LET items == Items(attr_val)
        rows == [i \in 1 .. Len(items.val) |-> color2rgb_call(items.val[i])]
        bad == {i \in 1 .. Len(items.val) : rows[i].exc # "none"}
    IN  IF items.exc # "none" THEN ParseRaises(items.exc)
        ELSE IF bad # {} THEN ParseRaises(rows[Min(bad)].exc)
        ELSE Parsed(TRUE, np_array_rows([i \in 1 .. Len(rows) |-> rows[i].val]))

\* The first part of _parse_expected_attr: a colour attribute becomes an
\* array of RGB rows, any other value that is not iterable an array of one
\* element; an iterable (a sequence or an array of numbers, a string, a list
\* of strings) is left as it is.
AsValues(attr_name, attr_val) ==
    IF attr_name \in {"colors", "edgecolors"}
    THEN IF color2rgb_call(attr_val).exc = "none"
         THEN Parsed(TRUE, np_array_rows(<<color2rgb(attr_val)>>))
         ELSE ColorRows(attr_val)
    ELSE IF attr_val.t = "num"
         THEN Parsed(TRUE, np_array(attr_val.v))
         ELSE IF attr_val.t \in {"str", "list"}
              THEN Parsed(FALSE, np_array([i \in 1 .. Len(Items(attr_val).val) |->
                                              Items(attr_val).val[i].s]))
              ELSE Parsed(attr_val.t = "ndarray", np_array(attr_val.v))

\* _parse_expected_attr that tiles every list shorter than ref, not only a
\* single value.
parse_expected_attr_cycled(ref, attr_name, attr_val) ==
    LET vals == AsValues(attr_name, attr_val)
    IN  IF vals.exc # "none" THEN vals
        ELSE IF ref.err # "none" THEN ParseRaises(ref.err)
        ELSE IF vals.arr.shape[1] >= ref.shape[1] \/ vals.arr.shape[1] = 0 THEN vals
        ELSE Parsed(TRUE, tile_or_trim(ref, vals.arr))

\* ScatterPlotChecker._parse_expected_attr (ref is self.x_data) and
\* BarPlotChecker._parse_expected_attr (ref is self.centers): a single value
\* is tiled to the length of ref; y.shape of a list or tuple is an
\* AttributeError.
parse_expected_attr(ref, attr_name, attr_val) ==
    LET vals == AsValues(attr_name, attr_val)
    IN  IF vals.exc # "none" THEN vals
        ELSE IF vals.arr.shape[1] # 1 THEN vals
        ELSE IF ref.err # "none" THEN ParseRaises(ref.err)
        ELSE IF ~vals.ndarray THEN ParseRaises("AttributeError")
        ELSE Parsed(TRUE, tile_or_trim(ref, vals.arr))

\* numpy.testing.assert_equal(actual, desired): the arrays have one shape
\* and the same elements, or it raises AssertionError; an exception raised
\* while an argument was computed is raised in its place (actual first).
np_assert_equal(actual, desired) ==
    IF actual.err # "none" THEN Raises(actual.err)
    ELSE IF desired.exc # "none" THEN Raises(desired.exc)
    ELSE IF actual.shape = desired.arr.shape /\ actual.data = desired.arr.data
         THEN Returns(<<>>)
         ELSE Raises("AssertionError")

\* The reference array of _parse_expected_attr.
Reference(pc) == IF pc.kind = "scatter" THEN scatter_data(pc, 0) ELSE bar_centers(pc)

\* assert_colors_equal and assert_alphas_equal of the scatter and the bar
\* checker
assert_attr_equal(pc, attr, expected) ==
    np_assert_equal(IF attr = "colors" THEN Properties(pc).colors ELSE Properties(pc).alphas,
                    parse_expected_attr(Reference(pc), attr, expected))

\* The expected values handed to the assertions: single values (a colour
\* as a string, a triple or a quadruple, a number, a sequence or array of
\* one element) and longer sequences.
ExpectedColors ==
    {Str("b"), Str("r"), Str("rb"), Str("foo"), Num(0),
     Tup(<<255, 0, 0>>), Tup(<<0, 0, 255, 255>>),
     List(<<Str("b")>>), List(<<Tup(<<255, 0, 0>>)>>),
     List(<<Str("b"), Str("r")>>), List(<<Str("r"), Str("b")>>)}

ExpectedAlphas ==
    {Num(255), Num(128), Num(64),
     Tup(<<64>>), Tup(<<255>>), NdArray(<<64>>), NdArray(<<255>>),
     Tup(<<255, 128>>), Tup(<<64, 64>>), NdArray(<<128, 255>>)}

\* ScatterPlotChecker.assert_markers_equal: self.markers is the first
\* argument computed.
assert_markers_equal(pc, markers) ==
    np_assert_equal(scatter_markers(pc),
                    parse_expected_attr(Reference(pc), "markers", markers))

ExpectedMarkers == {Str("o"), List(<<Str("o")>>), List(<<Str("o"), Str(".")>>)}

CheckedAttrs == {"colors", "alphas"}

Expected(attr) == IF attr = "colors" THEN ExpectedColors ELSE ExpectedAlphas

NotCalled ==
    [op |-> "idle", attr |-> "", expected |-> Num(0), out |-> Returns(<<>>),
     props |-> NoProperties]

\* pc = LinePlotChecker(axis)
ConstructLine ==
    /\ checker = NoChecker
    /\ checker' = LinePlotChecker(axis)
    /\ UNCHANGED <<axis, called>>

\* pc = ScatterPlotChecker(axis)
ConstructScatter ==
    /\ checker = NoChecker
    /\ checker' = ScatterPlotChecker(axis)
    /\ UNCHANGED <<axis, called>>

\* pc = BarPlotChecker(axis)
ConstructBar ==
    /\ checker = NoChecker
    /\ \E p \in argsort([i \in 1 .. Len(patches(axis)) |-> patches(axis)[i].x]) :
          checker' = BarPlotChecker(axis, p)
    /\ UNCHANGED <<axis, called>>

\* The test reads the properties of its checker.
ReadProperties ==
    /\ checker.kind # "none"
    /\ checker.exc = "none"
    /\ called.op = "idle"
    /\ called' = [NotCalled EXCEPT !.op = "read", !.props = Properties(checker)]
    /\ UNCHANGED <<axis, checker>>

\* pc.assert_colors_equal(expected), pc.assert_alphas_equal(expected)
AssertAttrEqual(attr, expected) ==
    /\ checker.kind \in {"scatter", "bar"}
    /\ checker.exc = "none"
    /\ called.op = "idle"
    /\ called' = [NotCalled EXCEPT !.op = "assert", !.attr = attr, !.expected = expected,
                                   !.out = assert_attr_equal(checker, attr, expected)]
    /\ UNCHANGED <<axis, checker>>

\* pc.assert_markers_equal(markers) on a scatter checker
AssertMarkersEqual(markers) ==
    /\ checker.kind = "scatter"
    /\ checker.exc = "none"
    /\ called.op = "idle"
    /\ called' = [NotCalled EXCEPT !.op = "assert", !.attr = "markers",
                                   !.expected = markers,
                                   !.out = assert_markers_equal(checker, markers)]
    /\ UNCHANGED <<axis, checker>>

\* The call is over.
CallReturn ==
    /\ called.op # "idle"
    /\ called' = NotCalled
    /\ UNCHANGED <<axis, checker>>

\* ------------------------------------------- the title of the plot

\* The titles set on the plot and handed to assert_title_equal.
Titles == {"", "  ", "foo", " foo ", "bar"}

\* str.strip(): the string without the whitespace around it.
strip ==
    [s \in Titles |->
        CASE s \in {"", "  "} -> ""
          [] s \in {"foo", " foo "} -> "foo"
          [] OTHER -> s]

\* A title property that answers from the title the plot had when the
\* checker was constructed.
title_at_construction(now, constructed) == strip[constructed]

\* PlotChecker.title: self.axis.get_title().strip(), asked of the axis at
\* each read; nothing is kept from the construction.
title_property(now, constructed) == strip[now]

\* PlotChecker.assert_title_equal(expected)
assert_title_equal(actual, expected) ==
    IF actual # strip[expected] THEN Raises("AssertionError") ELSE Returns("")

\* PlotChecker.assert_title_exists()
assert_title_exists(actual) ==
    IF actual = "" THEN Raises("AssertionError") ELSE Returns("")

NoBase == [built |-> FALSE, title0 |-> ""]

NoTitleCall == [op |-> "idle", arg |-> "", out |-> Returns("")]

\* pc = PlotChecker(axis)
NewPlotChecker ==
    /\ ~base.built
    /\ base' = [built |-> TRUE, title0 |-> title]
    /\ UNCHANGED <<title, tcall>>

\* axis.set_title(s), before or after the checker is constructed
SetTitle(s) ==
    /\ tcall.op = "idle"
    /\ title' = s
    /\ UNCHANGED <<base, tcall>>

\* pc.title
ReadTitle ==
    /\ base.built
    /\ tcall.op = "idle"
    /\ tcall' = [op |-> "title", arg |-> "",
                 out |-> Returns(title_property(title, base.title0))]
    /\ UNCHANGED <<title, base>>

\* pc.assert_title_equal(s)
AssertTitleEqual(s) ==
    /\ base.built
    /\ tcall.op = "idle"
    /\ tcall' = [op |-> "assert_title_equal", arg |-> s,
                 out |-> assert_title_equal(title_property(title, base.title0), s)]
    /\ UNCHANGED <<title, base>>

\* pc.assert_title_exists()
AssertTitleExists ==
    /\ base.built
    /\ tcall.op = "idle"
    /\ tcall' = [op |-> "assert_title_exists", arg |-> "",
                 out |-> assert_title_exists(title_property(title, base.title0))]
    /\ UNCHANGED <<title, base>>

\* The call is over.
TitleReturn ==
    /\ tcall.op # "idle"
    /\ tcall' = NoTitleCall
    /\ UNCHANGED <<title, base>>

\* ------------------------------- a second checker over the same plot

\* The second instance before any call: LinePlotChecker.__init__ gives it a
\* _perm of its own.
NewPeer == [perm |-> Identity(Len(lines)), own |-> Identity(Len(lines)), last |-> NoCall]

\* The second instance reads the _perm of the first, as if _perm were
\* shared by the instances.
PeerPermShared == perm

\* self._perm of the second instance
PeerPerm == peer.perm

\* other.find_permutation(attr, vals) on the second instance
FindPermutationPeer(attr, vals) ==
    LET out == find_outcome(attr, vals)
        p == IF out.exc = "none"
             THEN FirstMatching(attr, ParseKey(attr, vals), Actual(attr))
             ELSE peer.perm
    IN  /\ last.op = "idle"
        /\ peer.last.op = "idle"
        /\ peer' = [perm |-> p,
                    own |-> IF out.exc = "none" THEN p ELSE peer.own,
                    last |-> [op |-> "find", attr |-> attr, expected |-> vals, out |-> out]]
        /\ UNCHANGED lineVars

\* other.assert_<attr>_equal(vals) on the second instance
AssertEqualPeer(attr, vals) ==
    /\ last.op = "idle"
    /\ peer.last.op = "idle"
    /\ peer' = [peer EXCEPT !.last =
                    [op |-> "assert", attr |-> attr, expected |-> vals,
                     out |-> assert_equal(attr, ParseExpected(attr, vals), Actual(attr),
                                          PeerPerm)]]
    /\ UNCHANGED lineVars

\* The call on the second instance is over.
ReturnPeer ==
    /\ peer.last.op # "idle"
    /\ peer' = [peer EXCEPT !.last = NoCall]
    /\ UNCHANGED lineVars

\* The lists handed to the calls on the two instances: one value per line.
PairLists(attr) == {v \in ExpectedLists(attr) : Len(v) = Len(lines)}

\* ------------------------------------------------ the specifications

\* No run of the colour conversions is under way.
ColorIdle ==
    /\ cin = Num(0)
    /\ crgb = NoResult
    /\ calpha = NoResult
    /\ cre = NoResult
    /\ cpc = "idle"

\* No _tile_or_trim run is under way.
TileIdle ==
    /\ tx = NoArray
    /\ ty = NoArray
    /\ tres = NoArray
    /\ tres2 = NoArray
    /\ tpc = "idle"

\* Nothing is drawn and no checker is constructed over axis.
PlotIdle ==
    /\ axis = <<>>
    /\ checker = NoChecker
    /\ called = NotCalled

\* No PlotChecker is constructed over the titled plot.
TitleIdle ==
    /\ title = ""
    /\ base = NoBase
    /\ tcall = NoTitleCall

\* The second checker is never called.
PeerIdle == peer = NewPeer

Init == InitLine /\ TileIdle /\ ColorIdle /\ PlotIdle /\ TitleIdle /\ PeerIdle

Find == \E attr \in Attrs : \E vals \in ExpectedLists(attr) : FindPermutation(attr, vals)

AssertAttr == \E attr \in Attrs : \E vals \in ExpectedLists(attr) : AssertEqual(attr, vals)

Next ==
    \/ Find /\ UNCHANGED <<tileVars, colorVars, plotVars, titleVars, peerVars>>
    \/ AssertAttr /\ UNCHANGED <<tileVars, colorVars, plotVars, titleVars, peerVars>>
    \/ Return /\ UNCHANGED <<tileVars, colorVars, plotVars, titleVars, peerVars>>

\* A line checker and the calls made on it.
Spec == Init /\ [][Next]_vars

\* One line, no legend, no call: the line checker stands still.
LineIdle ==
    /\ lines = <<[x |-> 1, color |-> Str("r")]>>
    /\ legend = [exists |-> FALSE, texts |-> <<>>]
    /\ perm = Identity(1)
    /\ last = NoCall
    /\ found = [key |-> "", expected |-> <<>>, p |-> Identity(1)]

TileInit ==
    /\ LineIdle
    /\ ColorIdle
    /\ PlotIdle
    /\ TitleIdle
    /\ PeerIdle
    /\ tx \in RefArrays
    /\ ty \in Arrays
    /\ tres = NoArray
    /\ tres2 = NoArray
    /\ tpc = "start"

TileNext ==
    \/ TileCall /\ UNCHANGED <<lineVars, colorVars, plotVars, titleVars, peerVars>>
    \/ TileAgain /\ UNCHANGED <<lineVars, colorVars, plotVars, titleVars, peerVars>>

\* _tile_or_trim on every pair of arrays, then on its own result.
TileSpec == TileInit /\ [][TileNext]_vars

ColorInit ==
    /\ LineIdle
    /\ TileIdle
    /\ PlotIdle
    /\ TitleIdle
    /\ PeerIdle
    /\ cin \in ColorInputs
    /\ crgb = NoResult
    /\ calpha = NoResult
    /\ cre = NoResult
    /\ cpc = "start"

ColorNext ==
    \/ Color2Rgb /\ UNCHANGED <<lineVars, tileVars, plotVars, titleVars, peerVars>>
    \/ Color2Alpha /\ UNCHANGED <<lineVars, tileVars, plotVars, titleVars, peerVars>>
    \/ Color2RgbAgain /\ UNCHANGED <<lineVars, tileVars, plotVars, titleVars, peerVars>>

\* Both colour conversions on every value, then _color2rgb on its own result.
ColorSpec == ColorInit /\ [][ColorNext]_vars

PlotInit ==
    /\ LineIdle
    /\ TileIdle
    /\ ColorIdle
    /\ TitleIdle
    /\ PeerIdle
    /\ axis \in Axes
    /\ checker = NoChecker
    /\ called = NotCalled

AssertProperty == \E attr \in CheckedAttrs : \E expected \in Expected(attr) : AssertAttrEqual(attr, expected)

AssertMarkers == \E markers \in ExpectedMarkers : AssertMarkersEqual(markers)

PlotNext ==
    \/ ConstructLine /\ UNCHANGED <<lineVars, tileVars, colorVars, titleVars, peerVars>>
    \/ ConstructScatter /\ UNCHANGED <<lineVars, tileVars, colorVars, titleVars, peerVars>>
    \/ ConstructBar /\ UNCHANGED <<lineVars, tileVars, colorVars, titleVars, peerVars>>
    \/ ReadProperties /\ UNCHANGED <<lineVars, tileVars, colorVars, titleVars, peerVars>>
    \/ AssertProperty /\ UNCHANGED <<lineVars, tileVars, colorVars, titleVars, peerVars>>
    \/ AssertMarkers /\ UNCHANGED <<lineVars, tileVars, colorVars, titleVars, peerVars>>
    \/ CallReturn /\ UNCHANGED <<lineVars, tileVars, colorVars, titleVars, peerVars>>

\* Every plot of a few artists, one checker of any kind constructed over it,
\* and the calls made on that checker.
PlotSpec == PlotInit /\ [][PlotNext]_vars

TitleInit ==
    /\ LineIdle
    /\ TileIdle
    /\ ColorIdle
    /\ PlotIdle
    /\ PeerIdle
    /\ title \in Titles
    /\ base = NoBase
    /\ tcall = NoTitleCall

SetAnyTitle == \E s \in Titles : SetTitle(s)

AssertAnyTitle == \E s \in Titles : AssertTitleEqual(s)

TitleNext ==
    \/ NewPlotChecker /\ UNCHANGED <<lineVars, tileVars, colorVars, plotVars, peerVars>>
    \/ SetAnyTitle /\ UNCHANGED <<lineVars, tileVars, colorVars, plotVars, peerVars>>
    \/ ReadTitle /\ UNCHANGED <<lineVars, tileVars, colorVars, plotVars, peerVars>>
    \/ AssertAnyTitle /\ UNCHANGED <<lineVars, tileVars, colorVars, plotVars, peerVars>>
    \/ AssertTitleExists /\ UNCHANGED <<lineVars, tileVars, colorVars, plotVars, peerVars>>
    \/ TitleReturn /\ UNCHANGED <<lineVars, tileVars, colorVars, plotVars, peerVars>>

\* A plot whose title is set at any time, a PlotChecker constructed over it,
\* and the title calls made on that checker.
TitleSpec == TitleInit /\ [][TitleNext]_vars

\* Two line checkers over one plot without legend, of as many lines as
\* there are different data, each line with data of its own.
PairInit ==
    /\ InitLine
    /\ Len(lines) = Cardinality(XVals)
    /\ \A i, j \in 1 .. Len(lines) : i # j => lines[i].x # lines[j].x
    /\ ~legend.exists
    /\ TileIdle
    /\ ColorIdle
    /\ PlotIdle
    /\ TitleIdle
    /\ peer = NewPeer

PairAttrs == {"x_data", "colors"}

PairFind ==
    \E attr \in PairAttrs : \E vals \in PairLists(attr) :
        peer.last.op = "idle" /\ FindPermutation(attr, vals)

PairAssert ==
    \E attr \in PairAttrs : \E vals \in PairLists(attr) :
        peer.last.op = "idle" /\ AssertEqual(attr, vals)

PeerFind == \E attr \in PairAttrs : \E vals \in PairLists(attr) : FindPermutationPeer(attr, vals)

PeerAssert == \E attr \in PairAttrs : \E vals \in PairLists(attr) : AssertEqualPeer(attr, vals)

PairNext ==
    \/ PairFind /\ UNCHANGED <<tileVars, colorVars, plotVars, titleVars, peerVars>>
    \/ PairAssert /\ UNCHANGED <<tileVars, colorVars, plotVars, titleVars, peerVars>>
    \/ Return /\ UNCHANGED <<tileVars, colorVars, plotVars, titleVars, peerVars>>
    \/ PeerFind /\ UNCHANGED <<tileVars, colorVars, plotVars, titleVars>>
    \/ PeerAssert /\ UNCHANGED <<tileVars, colorVars, plotVars, titleVars>>
    \/ ReturnPeer /\ UNCHANGED <<tileVars, colorVars, plotVars, titleVars>>

\* The calls on the two checkers, one call at a time, in any order.
PairSpec == PairInit /\ [][PairNext]_vars

\* ------------------------------------------------ reading the claims

\* A supported representation of a colour: a name of the table, a hex code,
\* an RGB triple or an RGBA quadruple of numbers.
Supported(c) ==
    \/ c.t = "str" /\ c.s \in {"r", "red", "#ff0000", "#FF0000", "b", "blue", "#0000ff", "#0000FF"}
    \/ c.t = "seq" /\ Len(c.v) \in {3, 4}

\* The colour a test author or a plot means by a colour value, whatever the
\* representation: the ground truth the conversions are held against.
VisualColour(c) ==
    CASE c.t = "str" /\ c.s \in {"r", "red", "#ff0000", "#FF0000"} -> <<255, 0, 0>>
      [] c.t = "str" /\ c.s \in {"b", "blue", "#0000ff", "#0000FF"} -> <<0, 0, 255>>
      [] c.t = "seq" /\ Len(c.v) \in {3, 4} -> <<c.v[1], c.v[2], c.v[3]>>

\* The expected value v, as the test wrote it, is the value of attr at
\* Python index i of the attribute's actual list.
Denotes(attr, v, i) ==
    IF attr = "colors"
    THEN VisualColour(v) = VisualColour(Get(lines, i).color)
    ELSE v = Get(Actual(attr), i)

\* vals lists the actual values of attr in the order s: vals[j] is the value
\* at index s[j].
ListedIn(attr, vals, s) ==
    /\ Len(vals) = Len(s)
    /\ Len(Actual(attr)) = Len(s)
    /\ \A j \in Range(Len(s)) : Denotes(attr, Get(vals, j), Get(s, j))

\* vals is a reordering of the actual values of attr.
IsReordering(attr, vals) ==
    \E s \in Permutations0(Len(vals)) : ListedIn(attr, vals, s)

Distinct(s) == \A i, j \in 1 .. Len(s) : i # j => s[i] # s[j]

\* p is its own inverse (every permutation of fewer than three lines is).
Involution(p) == \A i \in Range(Len(p)) : Get(p, i) < Len(p) /\ Get(p, Get(p, i)) = i

FindCalled == last.op = "find"
AssertCalled == last.op = "assert"
CallPassed == last.out.exc = "none"

\* ---------------------------------------------------------------- C1

CommonOrder(s) ==
    /\ Len(Actual(found.key)) = Len(s)
    /\ Len(found.expected) = Len(s)
    /\ \A j \in Range(Len(s)) :
          Get(found.expected, j) = Get(Actual(found.key), Get(s, j))
    /\ ListedIn(last.attr, last.expected, s)

\* An assertion on another attribute than the key of the last successful
\* find_permutation, with both expected lists in one order of the lines.
AssertInCommonOrder ==
    /\ AssertCalled
    /\ found.key # ""
    /\ last.attr # found.key
    /\ \E s \in Permutations0(Len(lines)) : CommonOrder(s)

\* C2 as stated: with every attribute's expected values listed in one common
\* line order, after find_permutation succeeded on any key the assertion on
\* every other attribute passes.
C2_AnyKey == AssertInCommonOrder => CallPassed

\* C2 as amended: the same, for a key whose actual values are pairwise
\* distinct.
C2_DistinctKey ==
    (AssertInCommonOrder /\ Distinct(Actual(found.key))) => CallPassed

\* Three lines with distinct data, found by x_data in an order that is not
\* its own inverse; the assertion on the colours in that order has passed.
C2_Witness ==
    /\ AssertInCommonOrder
    /\ Distinct(Actual(found.key))
    /\ Len(lines) = 3
    /\ ~Involution(perm)
    /\ last.attr = "colors"
    /\ CallPassed

\* ---------------------------------------------------------------- C3

\* The assertion just made compared line i with expected[p[i]] for the
\* permutation p: it passed exactly if every such pair is there and equal, and
\* a value failure names the first line whose pair differs.
ComparedAlong(p) ==
    LET e == ParseExpected(last.attr, last.expected)
        a == Actual(last.attr)
        Pair(i) == i < Len(p) /\ Get(p, i) < Len(e)
        Equal(i) == Pair(i) /\ Get(a, i) = Get(e, Get(p, i))
    IN  Len(e) = Len(a) =>
          /\ CallPassed <=> \A i \in Range(Len(e)) : Equal(i)
          /\ last.out.msg = "value" =>
                /\ last.out.line \in Range(Len(e))
                /\ Pair(last.out.line)
                /\ ~Equal(last.out.line)
                /\ \A i \in Range(last.out.line) : Equal(i)

\* C3: every assertion compares actual[i] with expected[p[i]] for the
\* permutation p stored by the last successful find_permutation (the identity
\* before any), however many assertions were made since.
C3_AssertionsUseStoredPermutation ==
    /\ perm = found.p
    /\ AssertCalled => ComparedAlong(found.p)

\* An assertion on another attribute than the key, under a stored permutation
\* that is not the identity, has failed on a line after the first.
C3_Witness ==
    /\ AssertCalled
    /\ found.key # ""
    /\ last.attr # found.key
    /\ perm # Identity(Len(lines))
    /\ last.out.msg = "value"
    /\ last.out.line > 0

\* ---------------------------------------------------------------- C4

\* C4: find_permutation raises an AssertionError whenever the expected list
\* has another length than the actual values of the key, and whenever no
\* permutation of it equals them.
C4_FindFailsWithAssertionError ==
    (FindCalled /\ ~IsReordering(last.attr, last.expected)) =>
        last.out.exc = "AssertionError"

\* A find_permutation with a list of the right length that no permutation
\* matches has failed, on a checker that holds an earlier permutation.
C4_Witness ==
    /\ FindCalled
    /\ Len(last.expected) = Len(Actual(last.attr))
    /\ Len(last.expected) = 3
    /\ ~IsReordering(last.attr, last.expected)
    /\ last.out.exc = "AssertionError"
    /\ found.key # ""

\* ---------------------------------------------------------------- C5

NeverFound == found.key = ""

C6_LengthCheckedFirst ==
    (AssertCalled /\ Len(last.expected) # Len(Actual(last.attr))) =>
        /\ last.out.exc = "AssertionError"
        /\ last.out.msg = "length"
        /\ last.out.attr = last.attr
        /\ last.out.alen = Len(Actual(last.attr))
        /\ last.out.elen = Len(last.expected)
        /\ last.out.ncmp = 0
        /\ ~last.out.permread

\* The length error was raised although the stored permutation is too short
\* for the expected list: the loop would have raised an IndexError.
C6_Witness ==
    /\ AssertCalled
    /\ Len(last.expected) # Len(Actual(last.attr))
    /\ Len(perm) < Len(last.expected)
    /\ last.out.msg = "length"

\* ------------------------------------------------------------ C7 - C10

xn == tx.shape[1]
yn == ty.shape[1]
TileCalled == tpc # "start"
TileReturned == TileCalled /\ tres.err = "none"

\* The result has the reference's first dimension, the other dimensions of y,
\* and as many elements as its shape says.
ReferenceLength ==
    /\ TileReturned
    /\ tres.shape = [ty.shape EXCEPT ![1] = xn]
    /\ Len(tres.data) = xn * RowSize(ty)

C8_CyclicTiling ==
    (TileCalled /\ 0 < yn /\ yn < xn) =>
        /\ ReferenceLength
        /\ \A i \in Range(xn) : Row(tres, i) = Row(ty, i % yn)

\* A single row with two different elements was repeated three times.
C8_Witness ==
    /\ TileCalled
    /\ ty.shape = <<1, 2>>
    /\ ty.data[1] # ty.data[2]
    /\ xn = 3
    /\ \A i \in Range(xn) : Row(tres, i) = Row(ty, 0)

\* C9: values at least as long as the reference gives its first
\* len(reference) elements in order; of equal length it is returned
\* unchanged; and a second application changes nothing.
C9_TrimKeepsPrefix ==
    (TileCalled /\ yn >= xn) =>
        /\ ReferenceLength
        /\ \A i \in Range(xn) : Row(tres, i) = Row(ty, i)
        /\ yn = xn => tres = ty
        /\ tpc = "again" => tres2 = tres

\* Three rows that all differ were cut to two, and cutting again kept them.
C9_Witness ==
    /\ tpc = "again"
    /\ ty.shape = <<3, 2>>
    /\ Row(ty, 0) # Row(ty, 2)
    /\ Row(ty, 1) # Row(ty, 2)
    /\ xn = 2
    /\ tres2 = tres

\* C10: with empty values, _tile_or_trim raises for every reference length;
\* it never returns a result.
C10_EmptyAlwaysRaises == (TileCalled /\ yn = 0) => tres.err # "none"

\* ----------------------------------------------------------- C11 - C14

RgbCalled == cpc \in {"rgb", "alpha", "again"}
AlphaCalled == cpc \in {"alpha", "again"}

\* C11: _color2rgb maps every supported representation of one visual colour
\* (name, hex code, RGB triple, RGBA quadruple) to the same RGB triple, and
\* applied to that triple it returns the triple unchanged.
C11_OneTriplePerColour ==
    (RgbCalled /\ Supported(cin)) =>
        /\ crgb = Returns(VisualColour(cin))
        /\ \A d \in ColorInputs :
              (Supported(d) /\ VisualColour(d) = VisualColour(cin)) =>
                  color2rgb_call(d) = crgb
        /\ cpc = "again" => cre = crgb

\* The upper-case hex code of red gave (1, 0, 0), as the name and the RGBA
\* quadruple do, and converting that triple again gave it back.
C11_Witness ==
    /\ cpc = "again"
    /\ cin = Str("#FF0000")
    /\ crgb = Returns(<<255, 0, 0>>)
    /\ color2rgb_call(Str("r")) = crgb
    /\ color2rgb_call(Tup(<<255, 0, 0, 128>>)) = crgb
    /\ cre = crgb

\* C12: _color2alpha returns 1.0 for every colour given as a string and for
\* every sequence of three channels, and the fourth channel for every
\* sequence of four.
C12_AlphaIsFourthChannelOrOne ==
    AlphaCalled =>
        /\ (cin.t = "str" /\ Supported(cin)) => calpha = Returns(255)
        /\ (cin.t = "seq" /\ Len(cin.v) = 3) => calpha = Returns(255)
        /\ (cin.t = "seq" /\ Len(cin.v) = 4) => calpha = Returns(cin.v[4])

\* An RGBA colour with a fourth channel other than 1.0 gave that channel.
C12_Witness ==
    /\ AlphaCalled
    /\ cin = Tup(<<0, 0, 255, 128>>)
    /\ calpha = Returns(128)

\* C13: for every value that is not a name of the table, a hex code or a
\* sequence of three or four numbers, both _color2rgb and _color2alpha raise.
C13_InvalidColourRaises ==
    (AlphaCalled /\ ~Supported(cin)) =>
        /\ crgb.exc # "none"
        /\ calpha.exc # "none"

\* A sequence of three or four entries, one of them a number written as a
\* string.
HasNumericString(c) ==
    /\ c.t = "list"
    /\ Len(c.v) \in {3, 4}
    /\ \E i \in 1 .. Len(c.v) : c.v[i].t = "str" /\ c.v[i].s \in DOMAIN NumericStrings

\* C14: _color2rgb and _color2alpha accept channels that are numbers and
\* convert no string to a number: a sequence with a channel written as a
\* numeric string is refused by both.
C14_NoStringCoercion ==
    AlphaCalled =>
        /\ (cin.t = "seq" /\ Len(cin.v) \in {3, 4}) =>
              crgb.exc = "none" /\ calpha.exc = "none"
        /\ HasNumericString(cin) =>
              crgb.exc # "none" /\ calpha.exc # "none"

\* ------------------------------------------------ claims C15 and C16

\* The null markers: '', 'None' and None.
EmptyMarkers == {Str(""), Str("None"), None}

\* The line-style elements and the collections of the plot, by position.
LineStyleElements == {k \in 1 .. Len(axis) : axis[k].kind = "line"}
CollectionElements == {k \in 1 .. Len(axis) : axis[k].kind = "collection"}
BarElements == {k \in 1 .. Len(axis) : axis[k].kind = "patch"}

\* The plot is one of points: it has a line-style element or a collection,
\* no line-style element joins several points with a line, and every
\* line-style element has a marker.
PlotOfPoints ==
    /\ LineStyleElements \cup CollectionElements # {}
    /\ \A k \in LineStyleElements :
          /\ ~(Len(axis[k].xs) > 1 /\ axis[k].linestyle # "None")
          /\ axis[k].marker \notin EmptyMarkers

Constructed(kind) == checker.kind = kind /\ checker.exc = "none"

ElementsOfKind ==
    CASE checker.kind = "line" -> LineStyleElements
      [] checker.kind = "scatter" -> LineStyleElements \cup CollectionElements
      [] checker.kind = "bar" -> BarElements
      [] OTHER -> {}

\* C16: constructing a line, scatter or bar checker over a plot with no
\* element of its kind fails with InvalidPlotError, there is no instance, and
\* so no call is ever made on one.
C16_NoElementNoChecker ==
    (checker.kind # "none" /\ ElementsOfKind = {}) =>
        /\ checker = NoInstance(checker.kind, "InvalidPlotError")
        /\ called = NotCalled

\* A line checker is refused over a plot that holds bars and points only.
C16_Witness ==
    /\ checker = NoInstance("line", "InvalidPlotError")
    /\ BarElements # {}
    /\ CollectionElements # {}

\* ---------------------------------------------------------- claim C17

\* The plotted points: point j of the k-th drawing call, for the calls that
\* draw points.
PlottedPoints ==
    UNION {{<<k, j>> : j \in 1 .. Len(axis[k].xs)} :
           k \in LineStyleElements \cup CollectionElements}

\* Point pt comes before point qt in the order of the claim: line-style
\* calls before collections, then draw order, then the order within a call.
PointBefore(pt, qt) ==
    \/ axis[pt[1]].kind = "line" /\ axis[qt[1]].kind = "collection"
    \/ /\ axis[pt[1]].kind = axis[qt[1]].kind
       /\ pt[1] < qt[1] \/ (pt[1] = qt[1] /\ pt[2] < qt[2])

\* The entries of x_data and y_data that hold the point pt.
EntriesOf(pt) ==
    {e \in 1 .. Len(called.props.x_data.data) :
        /\ called.props.x_data.data[e] = axis[pt[1]].xs[pt[2]]
        /\ called.props.y_data.data[e] = axis[pt[1]].ys[pt[2]]}

PropertiesRead(kind) == Constructed(kind) /\ called.op = "read"

ReportedBars == 1 .. Len(called.props.heights.data)
BarAt(i) == axis[called.props.heights.data[i]]

Ascending(s) == \A i, j \in 1 .. Len(s) : i < j => s[i] <= s[j]

\* The bars are reported each once, and position i of every attribute holds
\* the value of one and the same bar.
SameBarOrder ==
    /\ Len(called.props.heights.data) = Cardinality(BarElements)
    /\ \A k \in BarElements :
          Cardinality({i \in ReportedBars : called.props.heights.data[i] = k}) = 1
    /\ called.props.centers.shape = <<Cardinality(BarElements)>>
    /\ called.props.widths.shape = <<Cardinality(BarElements)>>
    /\ called.props.alphas.shape = <<Cardinality(BarElements)>>
    /\ called.props.colors.shape = <<Cardinality(BarElements), 3>>
    /\ \A i \in ReportedBars :
          /\ 2 * called.props.centers.data[i] = 2 * BarAt(i).x + BarAt(i).width
          /\ called.props.widths.data[i] = BarAt(i).width
          /\ Row(called.props.colors, i - 1) = SubSeq(BarAt(i).facecolor.v, 1, 3)
          /\ called.props.alphas.data[i] =
                IF BarAt(i).alpha = NoAlpha THEN BarAt(i).facecolor.v[4] ELSE BarAt(i).alpha

\* C18 as stated: whatever the draw order, widths and alignment of the
\* bars, the reported centers are in ascending order and every other
\* attribute is reported in that same bar order.
C18_CentersAscending ==
    PropertiesRead("bar") =>
        /\ Ascending(called.props.centers.data)
        /\ SameBarOrder

EqualWidths == \A k, l \in BarElements : axis[k].width = axis[l].width

NoOverlap ==
    \A k, l \in BarElements :
        k # l => \/ axis[k].x + axis[k].width <= axis[l].x
                 \/ axis[l].x + axis[l].width <= axis[k].x

\* C18, amended: whatever the draw order, the bars are reported in ascending
\* order of their left edges, every attribute in that same bar order; the
\* centers are ascending when the bars have equal widths or do not overlap.
C18_SortedByLeftEdge ==
    PropertiesRead("bar") =>
        /\ SameBarOrder
        /\ Ascending([i \in ReportedBars |-> BarAt(i).x])
        /\ (EqualWidths \/ NoOverlap) => Ascending(called.props.centers.data)

\* Two bars of different widths drawn right to left that do not overlap:
\* they are reported left to right.
C18_Witness ==
    /\ PropertiesRead("bar")
    /\ Len(axis) = 2
    /\ axis[1].kind = "patch" /\ axis[1].x = 2 /\ axis[1].width = 6
    /\ axis[2].kind = "patch" /\ axis[2].x = 0 /\ axis[2].width = 2
    /\ called.props.centers.data = <<1, 5>>
    /\ called.props.heights.data = <<2, 1>>

\* ---------------------------------------------------------- claim C19

\* The alpha channel of a colour: the fourth channel of an RGBA colour, 1.0
\* for any other.
AlphaChannel(c) == IF c.t = "seq" /\ Len(c.v) = 4 THEN c.v[4] ELSE 255

\* The alpha the claim gives an element of explicit alpha a and colour c.
AlphaOf(a, c) == IF a # NoAlpha THEN a ELSE AlphaChannel(c)

\* The colour of point j of a point series: the marker's face colour of a
\* line-style call, the point's own face colour in a collection (the face
\* colours are cycled over the points).
PointColour(el, j) ==
    IF el.kind = "line"
    THEN el.color
    ELSE el.facecolors[((j - 1) % Len(el.facecolors)) + 1]

\* Every collection has an alpha of its own or a face colour to take it
\* from.
AlphaDefined ==
    \A k \in CollectionElements : axis[k].alpha # NoAlpha \/ axis[k].facecolors # <<>>

SingleValue(attr, expected) ==
    \/ expected.t = "num" /\ attr # "colors"
    \/ attr = "colors" /\ Supported(expected)
    \/ expected.t \in {"seq", "list", "ndarray"} /\ Len(expected.v) = 1

\* The value a single expected value stands for: the number, or the RGB
\* triple of the colour.
ValueOf(attr, expected) ==
    LET one == IF expected.t \in {"list", "seq", "ndarray"} /\ Len(expected.v) = 1
               THEN Elements(expected)[1]
               ELSE expected
    IN  IF attr = "colors" THEN VisualColour(one) ELSE one.v

\* The checker's actual values of an attribute, one per plotted element.
ActualOf(attr) ==
    IF attr = "colors" THEN Properties(checker).colors ELSE Properties(checker).alphas

AssertCalledOn(attr) == called.op = "assert" /\ called.attr = attr

\* C20: in the scatter and bar assertions, an expected value given as a
\* single value (a scalar, a single colour, or a sequence of length 1) stands
\* for every plotted element: the assertion passes if and only if every
\* element's actual value equals it.
C20_SingleValueForAll ==
    \A attr \in CheckedAttrs :
        (/\ AssertCalledOn(attr)
         /\ SingleValue(attr, called.expected)
         /\ ActualOf(attr).err = "none") =>
            (called.out.exc = "none" <=>
                \A i \in 1 .. ActualOf(attr).shape[1] :
                    Row(ActualOf(attr), i - 1) = ValueOf(attr, called.expected))

\* ---------------------------------------------------------- claim C21

\* The number of values of an expected list: the colours of a list of
\* colours, the numbers of a sequence or array of numbers; 0 for a value that
\* is no list.
ListLength(attr, expected) ==
    IF attr = "colors"
    THEN IF expected.t = "list" THEN Len(expected.v) ELSE 0
    ELSE IF expected.t \in {"seq", "ndarray"} THEN Len(expected.v) ELSE 0

\* The expected list is longer than 1 and shorter than the number of plotted
\* elements, whose values can be read.
ShorterList(attr) ==
    /\ AssertCalledOn(attr)
    /\ ActualOf(attr).err = "none"
    /\ ListLength(attr, called.expected) > 1
    /\ ListLength(attr, called.expected) < ActualOf(attr).shape[1]

\* The value at Python index i of an expected list.
ExpectedAt(attr, expected, i) ==
    LET el == Elements(expected)[(i % Len(expected.v)) + 1]
    IN  IF attr = "colors" THEN VisualColour(el) ELSE el.v

\* C21 as stated: in the scatter and bar assertions an expected list shorter
\* than the number of plotted elements, and longer than 1, is cycled to the
\* element count, so the assertion passes when the actual values repeat the
\* list cyclically.
C21_ShorterListCycled ==
    \A attr \in CheckedAttrs :
        (/\ ShorterList(attr)
         /\ \A i \in 0 .. (ActualOf(attr).shape[1] - 1) :
               Row(ActualOf(attr), i) = ExpectedAt(attr, called.expected, i)) =>
            called.out.exc = "none"

\* C21, amended: such a list is compared as it is given, and the assertion
\* fails with AssertionError whatever the actual values are.
C21_ShorterListFails ==
    \A attr \in CheckedAttrs :
        ShorterList(attr) => called.out.exc = "AssertionError"

\* Four points of alpha 0.25 asserted against the list [0.25, 0.25].
C21_Witness ==
    /\ Constructed("scatter")
    /\ ShorterList("alphas")
    /\ called.expected = Tup(<<64, 64>>)
    /\ Properties(checker).alphas.data = <<64, 64, 64, 64>>
    /\ called.out.exc = "AssertionError"

\* ---------------------------------------------------------- claim C22

\* C22: reading the markers of a scatter checker, and assert_markers_equal
\* on it, always end in NotImplementedError, which is no AssertionError:
\* no marker is reported and the assertion never passes.
C22_MarkersNotSupported ==
    /\ PropertiesRead("scatter") => called.props.markers = Raised("NotImplementedError")
    /\ (Constructed("scatter") /\ AssertCalledOn("markers")) =>
          called.out = Raises("NotImplementedError")

\* One point drawn with the marker 'o', asserted to have the marker 'o'.
C22_Witness ==
    /\ Constructed("scatter")
    /\ AssertCalledOn("markers")
    /\ called.expected = Str("o")
    /\ Len(axis) = 1 /\ axis[1].kind = "line" /\ axis[1].marker = Str("o")
    /\ Len(axis[1].xs) = 1
    /\ called.out.exc = "NotImplementedError"

\* ---------------------------------------------------------- claim C23

\* The titles that show the same text, and the titles that show none.
SameText(a, b) == \E c \in {{"", "  "}, {"foo", " foo "}, {"bar"}} : a \in c /\ b \in c
Blank(a) == SameText(a, "")

\* The outcome of the title call under way agrees with the title shown.
OutcomeFor(shown) ==
    CASE tcall.op = "title" -> SameText(tcall.out.val, shown) /\ tcall.out.exc = "none"
      [] tcall.op = "assert_title_exists" -> tcall.out.exc = "none" <=> ~Blank(shown)
      [] tcall.op = "assert_title_equal" -> tcall.out.exc = "none" <=> SameText(tcall.arg, shown)
      [] OTHER -> TRUE

\* C23 as stated: a checker does not observe what is set on the plot after
\* its construction; every call gives the outcome it would have given
\* right after construction.
C23_SnapshotAtConstruction == OutcomeFor(base.title0)

\* C23, amended: a checker keeps the plot, no copy of it; every title call
\* gives the outcome for the title the plot has when the call is made.
C23_ReadsLivePlot ==
    /\ OutcomeFor(title)
    /\ tcall.out.exc \in {"none", "AssertionError"}

\* The checker was constructed over a plot without title, the title 'foo'
\* was set afterwards, and assert_title_exists passes.
C23_Witness ==
    /\ base.built /\ base.title0 = ""
    /\ title = "foo"
    /\ tcall.op = "assert_title_exists"
    /\ tcall.out.exc = "none"

\* ---------------------------------------------------------- claim C24

\* The outcome an assertion has under the permutation p.
OutcomeUnder(call, p) ==
    assert_equal(call.attr, ParseExpected(call.attr, call.expected), Actual(call.attr), p)

\* C24: two line checkers over one plot share no state.  Under every
\* interleaving of calls, the active permutation of each checker is the one
\* its own last successful find_permutation stored (the identity before
\* any), and the outcome of each assertion is the one under that
\* permutation, whatever was called on the other checker.
C24_NoSharedState ==
    /\ perm = found.p
    /\ peer.perm = peer.own
    /\ last.op = "assert" => last.out = OutcomeUnder(last, found.p)
    /\ peer.last.op = "assert" => peer.last.out = OutcomeUnder(peer.last, peer.own)

\* Each checker has found a permutation of its own, neither the identity,
\* and an assertion passes on the second that would fail under the
\* permutation of the first.
C24_Witness ==
    /\ perm # Identity(Len(lines))
    /\ peer.perm # Identity(Len(lines))
    /\ perm # peer.perm
    /\ peer.last.op = "assert"
    /\ peer.last.out.exc = "none"
    /\ OutcomeUnder(peer.last, perm).exc = "AssertionError"

\* --------------------------------------------------------------- C25

\* The permutation q of the line indices matches the find_permutation just
\* made: the expected value at q[i] is the key's value of line i, for every i.
MatchesKey(q) ==
    \A i \in Range(Len(q)) : Denotes(last.attr, Get(last.expected, Get(q, i)), i)

\* The permutations that match the find_permutation just made.
MatchesOfCall == {q \in Permutations0(Len(last.expected)) : MatchesKey(q)}

\* C25: after a successful find_permutation the stored permutation matches
\* and comes before every other matching permutation in the lexicographic
\* order of the index tuples; it is therefore fixed by the actual and the
\* expected key values alone, whatever permutation was stored before.
C25_FirstInLexOrder ==
    (FindCalled /\ CallPassed) =>
        /\ perm \in MatchesOfCall
        /\ \A q \in MatchesOfCall : q = perm \/ LexLess(perm, q)
        /\ found.p = perm

\* A find_permutation on a key with a repeated value has succeeded where more
\* than one permutation matches, and the one stored is not the identity.
C25_Witness ==
    /\ FindCalled
    /\ CallPassed
    /\ Cardinality(MatchesOfCall) > 1
    /\ perm # Identity(Len(lines))
    /\ Len(lines) = 3

\* --------------------------------------------------------------- C26

\* Line i of the assertion just made has a pair to compare under the active
\* permutation, and the pair differs.
DiffersAt(i) ==
    LET e == ParseExpected(last.attr, last.expected)
        a == Actual(last.attr)
    IN  /\ i < Len(a)
        /\ i < Len(perm)
        /\ Get(perm, i) < Len(e)
        /\ Get(a, i) # Get(e, Get(perm, i))

\* C26: when a per-line assertion fails on a value, the line named in the
\* failure is the smallest index i at which actual[i] and expected[perm[i]]
\* differ, and the values reported are expected[perm[i]] and actual[i] for
\* that i.
C26_FirstDifferenceReported ==
    (AssertCalled /\ last.out.msg = "value") =>
        LET e == ParseExpected(last.attr, last.expected)
            a == Actual(last.attr)
            i == last.out.line
        IN  /\ last.out.exc = "AssertionError"
            /\ last.out.attr = last.attr
            /\ i \in Range(Len(a))
            /\ DiffersAt(i)
            /\ \A j \in Range(i) : ~DiffersAt(j)
            /\ last.out.shown = <<Get(e, Get(perm, i)), Get(a, i)>>

\* An assertion under a stored permutation other than the identity has failed
\* on a line after the first, where the expected value at the line's own
\* index is another one than the expected value the permutation points at.
C26_Witness ==
    /\ AssertCalled
    /\ last.out.msg = "value"
    /\ last.out.line > 0
    /\ DiffersAt(last.out.line)
    /\ perm # Identity(Len(lines))
    /\ LET e == ParseExpected(last.attr, last.expected)
       IN  Get(e, last.out.line) # Get(e, Get(perm, last.out.line))

\* --------------------------------------------------------------- C27

\* C27: in every reachable state of a line checker the active permutation is
\* a bijection on the line indices 0 .. n-1, n the number of plotted lines,
\* also after find_permutation on 'labels' under a legend with fewer texts
\* than there are lines.
C27_PermIsBijection == perm \in Permutations0(Len(lines))

\* --------------------------------------------------------------- C28

\* The step is a call that find_permutation completes successfully.
SuccessfulFindStep ==
    /\ last.op = "idle"
    /\ last'.op = "find"
    /\ last'.out.exc = "none"

\* The step is an assertion, passing or failing, or a find_permutation that
\* fails.
OtherCallStep ==
    /\ last.op = "idle"
    /\ \/ last'.op = "assert"
       \/ last'.op = "find" /\ last'.out.exc # "none"

\* C28: only a successful find_permutation changes the active permutation:
\* every assert_* call, passing or failing, and every find_permutation that
\* fails on the length or finds no match leaves it as it was.
C28_OnlySuccessfulFindChangesPerm ==
    [][/\ OtherCallStep => perm' = perm
       /\ perm' # perm => SuccessfulFindStep]_vars

\* A find_permutation with a list of the right length that nothing matches
\* has failed on a checker whose stored permutation is not the identity, and
\* that permutation is still the active one.
C28_Witness ==
    /\ FindCalled
    /\ last.out.msg = "nomatch"
    /\ found.key # ""
    /\ found.p # Identity(Len(lines))
    /\ perm = found.p

\* --------------------------------------------------------------- C29

\* C29: a per-line assertion called with a list of expected values either
\* returns silently or raises an AssertionError; it never indexes the
\* expected list or the permutation out of bounds and never ends in another
\* error, also for an attribute with fewer entries than there are lines
\* under a permutation other than the identity.
C29_PassOrAssertionError ==
    AssertCalled => last.out.exc \in {"none", "AssertionError"}

\* The same for the case the claim names: labels under a legend with fewer
\* texts than lines, asserted under a full-length stored permutation.
C29_ShortLabelsUnderPermutation ==
    /\ AssertCalled
    /\ last.attr = "labels"
    /\ Len(labels) < Len(lines)
    /\ Len(perm) = Len(lines)
    /\ perm # Identity(Len(lines))
    /\ last.out.exc = "IndexError"

\* --------------------------------------------------------------- C30

\* The per-point attribute arrays of a scatter checker that were read.
PerPointArrays == {called.props.colors, called.props.alphas}

\* C30: for every successfully constructed scatter checker each per-point
\* attribute array is read without error and has as many entries as x_data,
\* entry k describing the plotted point of x_data[k], whatever number of
\* colours a drawing call carries: none, fewer than, as many as or more than
\* its points.
C30_PerPointArraysReadable ==
    PropertiesRead("scatter") =>
        /\ \A a \in PerPointArrays :
              /\ a.err = "none"
              /\ a.shape[1] = Len(called.props.x_data.data)
        /\ \A pt \in PlottedPoints : \A e \in EntriesOf(pt) :
              /\ Row(called.props.colors, e - 1)
                    = VisualColour(PointColour(axis[pt[1]], pt[2]))
              /\ called.props.alphas.data[e] =
                    AlphaOf(axis[pt[1]].alpha, PointColour(axis[pt[1]], pt[2]))

\* C30 for the plots in which every collection carries at least one face
\* colour.
C30_ReadableWithColours ==
    (\A k \in CollectionElements : axis[k].facecolors # <<>>) =>
        C30_PerPointArraysReadable

\* A collection of two points with one face colour, and a collection of one
\* point with two: the colours read are one per point.
C30_SomeColours ==
    /\ PropertiesRead("scatter")
    /\ Len(axis) = 2
    /\ axis[1].kind = "collection" /\ Len(axis[1].xs) = 2 /\ Len(axis[1].facecolors) = 1
    /\ axis[2].kind = "collection" /\ Len(axis[2].xs) = 1 /\ Len(axis[2].facecolors) = 2
    /\ called.props.colors.shape = <<3, 3>>

\* A collection without face colours has been read: colors raised.
C30_NoColours ==
    /\ PropertiesRead("scatter")
    /\ \E k \in CollectionElements : axis[k].facecolors = <<>>
    /\ called.props.colors.err = "ZeroDivisionError"

====
